---- MODULE Spec2Model ----
(***************************************************************************)
(* A model of the JSON parser of src/lib.rs: the lexer (tokenize with      *)
(* peek_keyword, peek_number, peek_string) and the non-recursive tree      *)
(* builder (parse) with its explicit stack of frames that hold raw         *)
(* pointers into the tree under construction.                              *)
(*                                                                         *)
(* Bytes are the integers 0..255.  A Rust index i is kept 0-based, so the  *)
(* byte at index i of a buffer b is b[i + 1].                              *)
(***************************************************************************)
EXTENDS Integers, Sequences, FiniteSets, TLC

VARIABLES bytes, i, tokens, input, ti, stack, root_value, pc, result

vars == <<bytes, i, tokens, input, ti, stack, root_value, pc, result>>

(***************************************************************************)
(* Byte literals of the source.                                            *)
(***************************************************************************)
b_tab == 9
b_lf == 10
b_cr == 13
b_space == 32
b_quote == 34
b_plus == 43
b_comma == 44
b_minus == 45
b_dot == 46
b_0 == 48
b_1 == 49
b_9 == 57
b_colon == 58
b_upper_A == 65
b_upper_E == 69
b_upper_F == 70
b_lbracket == 91
b_backslash == 92
b_rbracket == 93
b_lower_a == 97
b_lower_b == 98
b_lower_e == 101
b_lower_f == 102
b_lower_l == 108
b_lower_n == 110
b_lower_r == 114
b_lower_s == 115
b_lower_t == 116
b_lower_u == 117
b_lbrace == 123
b_rbrace == 125
BACKSPACE_CHAR == 8
FORM_FEED_CHAR == 12

kw_true == <<b_lower_t, b_lower_r, b_lower_u, b_lower_e>>
kw_false == <<b_lower_f, b_lower_a, b_lower_l, b_lower_s, b_lower_e>>
kw_null == <<b_lower_n, b_lower_u, b_lower_l, b_lower_l>>

IsDigit(byte) == byte >= b_0 /\ byte <= b_9

\* slice.get(k): the byte at 0-based index k, or -1 for None.
Get(rb, k) == IF k < Len(rb) THEN rb[k + 1] ELSE -1

\* &bytes[i..bytes.len()]
Remaining(b, k) == SubSeq(b, k + 1, Len(b))

(***************************************************************************)
(* Token, and Option.                                                      *)
(***************************************************************************)
TokArrayBegin == [kind |-> "ArrayBegin"]
TokArrayEnd == [kind |-> "ArrayEnd"]
TokBoolean(b) == [kind |-> "Boolean", b |-> b]
TokColon == [kind |-> "Colon"]
TokComma == [kind |-> "Comma"]
TokNull == [kind |-> "Null"]
TokNumber(n) == [kind |-> "Number", n |-> n]
TokObjectBegin == [kind |-> "ObjectBegin"]
TokObjectEnd == [kind |-> "ObjectEnd"]
TokString(s) == [kind |-> "String", s |-> s]

None == [tag |-> "None"]
Some(v) == [tag |-> "Some", v |-> v]

(***************************************************************************)
(* f64::from_str on the byte range peek_number matched.  The range holds   *)
(* only the bytes - + . e E 0..9, so of the library's grammar              *)
(*   [sign] (Digit+ | Digit+ '.' Digit* | Digit* '.' Digit+) [Exp]         *)
(*   Exp ::= ('e'|'E') [sign] Digit+                                       *)
(* the words inf, infinity and nan cannot occur.  The value is kept as the *)
(* exact decimal it denotes (sign, mantissa without trailing zeros, power  *)
(* of ten), saturated to infinity or zero outside the binary64 range;      *)
(* rounding of the mantissa is not modelled.                               *)
(***************************************************************************)
F64_MAX_10_EXP == 308
F64_MIN_10_EXP == -324

RECURSIVE DecDigits(_)
DecDigits(m) == IF m < 10 THEN 1 ELSE 1 + DecDigits(m \div 10)

RECURSIVE Normalize(_, _, _)
Normalize(neg, mant, exp) ==
    IF mant = 0 THEN [cls |-> "finite", neg |-> neg, mant |-> 0, exp |-> 0]
    ELSE IF mant % 10 = 0 THEN Normalize(neg, mant \div 10, exp + 1)
    ELSE IF exp + DecDigits(mant) - 1 > F64_MAX_10_EXP
         THEN [cls |-> "inf", neg |-> neg, mant |-> 0, exp |-> 0]
    ELSE IF exp + DecDigits(mant) - 1 < F64_MIN_10_EXP
         THEN [cls |-> "finite", neg |-> neg, mant |-> 0, exp |-> 0]
    ELSE [cls |-> "finite", neg |-> neg, mant |-> mant, exp |-> exp]

F64Zero == [cls |-> "finite", neg |-> FALSE, mant |-> 0, exp |-> 0]

\* One pass over the text: st is the part of the grammar the scan is in,
\* a the sign, the digits of the mantissa read as one integer (nd of them,
\* nf after the point), and the exponent (ne digits).
F64Acc ==
    [bad |-> FALSE, st |-> "Start", neg |-> FALSE, mant |-> 0, nd |-> 0,
     nf |-> 0, eneg |-> FALSE, e |-> 0, ne |-> 0]

RECURSIVE F64Scan(_, _, _, _)
F64Scan(s, p, st, a) ==
    IF p > Len(s) THEN [a EXCEPT !.st = st]
    ELSE LET c == s[p] IN
      CASE st = "Start" ->
             IF c = b_minus \/ c = b_plus
             THEN F64Scan(s, p + 1, "Int", [a EXCEPT !.neg = (c = b_minus)])
             ELSE F64Scan(s, p, "Int", a)
        [] st = "Int" ->
             IF IsDigit(c)
             THEN F64Scan(s, p + 1, "Int",
                          [a EXCEPT !.mant = 10 * @ + (c - b_0), !.nd = @ + 1])
             ELSE IF c = b_dot THEN F64Scan(s, p + 1, "Frac", a)
             ELSE IF c = b_lower_e \/ c = b_upper_E
                  THEN F64Scan(s, p + 1, "ExpStart", a)
             ELSE [a EXCEPT !.bad = TRUE]
        [] st = "Frac" ->
             IF IsDigit(c)
             THEN F64Scan(s, p + 1, "Frac",
                          [a EXCEPT !.mant = 10 * @ + (c - b_0), !.nd = @ + 1,
                                    !.nf = @ + 1])
             ELSE IF c = b_lower_e \/ c = b_upper_E
                  THEN F64Scan(s, p + 1, "ExpStart", a)
             ELSE [a EXCEPT !.bad = TRUE]
        [] st = "ExpStart" ->
             IF c = b_minus \/ c = b_plus
             THEN F64Scan(s, p + 1, "Exp", [a EXCEPT !.eneg = (c = b_minus)])
             ELSE F64Scan(s, p, "Exp", a)
        [] st = "Exp" ->
             IF IsDigit(c)
             THEN F64Scan(s, p + 1, "Exp",
                          [a EXCEPT !.e = 10 * @ + (c - b_0), !.ne = @ + 1])
             ELSE [a EXCEPT !.bad = TRUE]

F64Value(a) == Normalize(a.neg, a.mant, (IF a.eneg THEN 0 - a.e ELSE a.e) - a.nf)

F64FromStr(s) ==
    LET a == F64Scan(s, 1, "Start", F64Acc)
    IN  IF ~a.bad /\ a.nd >= 1 /\ (a.st \in {"ExpStart", "Exp"} => a.ne >= 1)
        THEN [ok |-> TRUE, val |-> F64Value(a)]
        ELSE [ok |-> FALSE, val |-> F64Zero]

(***************************************************************************)
(* peek_keyword                                                            *)
(***************************************************************************)
StartsWith(rb, keyword) ==
    Len(rb) >= Len(keyword) /\ SubSeq(rb, 1, Len(keyword)) = keyword

\* A keyword peek that takes the keyword for granted after its first byte.
peek_keyword_Unchecked(remaining_bytes, keyword) == Len(keyword)

peek_keyword(remaining_bytes, keyword) ==
    IF StartsWith(remaining_bytes, keyword) THEN Len(keyword) ELSE 0

(***************************************************************************)
(* peek_number: the scanner's transition on one byte ("INVALID" for        *)
(* return INVALID_RESULT, "BREAK" for break), the loop, and the            *)
(* conversion of the matched range.                                        *)
(***************************************************************************)
IsExpMark(byte) == byte = b_lower_e \/ byte = b_upper_E

\* A scanner that lets digits follow a leading zero, as State::IntegerDigits
\* lets them follow any other digit.
IntegerZeroNext_Lenient(byte) ==
    IF IsDigit(byte) THEN "IntegerDigits"
    ELSE IF byte = b_dot THEN "Dot"
    ELSE IF IsExpMark(byte) THEN "E"
    ELSE "BREAK"

IntegerZeroNext(byte) ==
    IF byte = b_dot THEN "Dot"
    ELSE IF IsExpMark(byte) THEN "E"
    ELSE "BREAK"

DotNext(byte) == IF IsDigit(byte) THEN "FractionDigits" ELSE "INVALID"

NumberNext(state, byte) ==
    CASE state = "Start" ->
            IF byte = b_minus THEN "Negative"
            ELSE IF byte = b_0 THEN "IntegerZero"
            ELSE IF byte >= b_1 /\ byte <= b_9 THEN "IntegerNonZero"
            ELSE "INVALID"
      [] state = "Negative" ->
            IF byte = b_0 THEN "IntegerZero"
            ELSE IF byte >= b_1 /\ byte <= b_9 THEN "IntegerNonZero"
            ELSE "INVALID"
      [] state = "IntegerZero" -> IntegerZeroNext(byte)
      [] state \in {"IntegerNonZero", "IntegerDigits"} ->
            IF IsDigit(byte) THEN "IntegerDigits"
            ELSE IF byte = b_dot THEN "Dot"
            ELSE IF IsExpMark(byte) THEN "E"
            ELSE "BREAK"
      [] state = "Dot" -> DotNext(byte)
      [] state = "FractionDigits" ->
            IF IsDigit(byte) THEN "FractionDigits"
            ELSE IF IsExpMark(byte) THEN "E"
            ELSE "BREAK"
      [] state = "E" ->
            IF byte = b_plus \/ byte = b_minus THEN "Sign"
            ELSE IF IsDigit(byte) THEN "ExponentDigits"
            ELSE "INVALID"
      [] state = "Sign" ->
            IF IsDigit(byte) THEN "ExponentDigits" ELSE "INVALID"
      [] state = "ExponentDigits" ->
            IF IsDigit(byte) THEN "ExponentDigits" ELSE "BREAK"

\* The for loop: the number of bytes matched, or -1 for INVALID_RESULT.
\* The loop also ends, in whatever state it is in, when the bytes run out.
RECURSIVE NumberScan(_, _, _)
NumberScan(rb, state, k) ==
    IF k >= Len(rb) THEN k
    ELSE LET next == NumberNext(state, rb[k + 1])
         IN  IF next = "INVALID" THEN -1
             ELSE IF next = "BREAK" THEN k
             ELSE NumberScan(rb, next, k + 1)

NumberInvalid == [len |-> 0, number |-> F64Zero]

peek_number(remaining_bytes) ==
    LET k == NumberScan(remaining_bytes, "Start", 0)
    IN  IF k < 0 THEN NumberInvalid
        ELSE LET f == F64FromStr(SubSeq(remaining_bytes, 1, k))
             IN  IF f.ok THEN [len |-> k, number |-> f.val]
                 ELSE NumberInvalid

(***************************************************************************)
(* peek_string.  String::from_utf8 is the validity check of the decoded    *)
(* bytes (the well-formed byte sequences of the Unicode standard), and     *)
(* EncodeUtf8 is char::encode_utf8 for a code point below 65536.           *)
(***************************************************************************)
IsCont(byte) == byte >= 128 /\ byte <= 191

RECURSIVE Utf8Valid(_, _)
Utf8Valid(s, p) ==
    IF p > Len(s) THEN TRUE
    ELSE LET b1 == s[p]
             b2 == Get(s, p)
             b3 == Get(s, p + 1)
             b4 == Get(s, p + 2)
         IN  IF b1 <= 127 THEN Utf8Valid(s, p + 1)
             ELSE IF b1 >= 194 /\ b1 <= 223
                  THEN IsCont(b2) /\ Utf8Valid(s, p + 2)
             ELSE IF b1 = 224
                  THEN b2 >= 160 /\ b2 <= 191 /\ IsCont(b3) /\ Utf8Valid(s, p + 3)
             ELSE IF b1 = 237
                  THEN b2 >= 128 /\ b2 <= 159 /\ IsCont(b3) /\ Utf8Valid(s, p + 3)
             ELSE IF b1 >= 225 /\ b1 <= 239
                  THEN IsCont(b2) /\ IsCont(b3) /\ Utf8Valid(s, p + 3)
             ELSE IF b1 = 240
                  THEN b2 >= 144 /\ b2 <= 191 /\ IsCont(b3) /\ IsCont(b4)
                       /\ Utf8Valid(s, p + 4)
             ELSE IF b1 >= 241 /\ b1 <= 243
                  THEN IsCont(b2) /\ IsCont(b3) /\ IsCont(b4) /\ Utf8Valid(s, p + 4)
             ELSE IF b1 = 244
                  THEN b2 >= 128 /\ b2 <= 143 /\ IsCont(b3) /\ IsCont(b4)
                       /\ Utf8Valid(s, p + 4)
             ELSE FALSE

EncodeUtf8(c) ==
    IF c < 128 THEN <<c>>
    ELSE IF c < 2048 THEN <<192 + (c \div 64), 128 + (c % 64)>>
    ELSE <<224 + (c \div 4096), 128 + ((c \div 64) % 64), 128 + (c % 64)>>

\* One hex character's value, or -1 when the byte (or None) is no hex digit.
HexValue(byte) ==
    IF byte >= b_0 /\ byte <= b_9 THEN byte - b_0
    ELSE IF byte >= b_upper_A /\ byte <= b_upper_F THEN byte - b_upper_A + 10
    ELSE IF byte >= b_lower_a /\ byte <= b_lower_f THEN byte - b_lower_a + 10
    ELSE -1

\* An escape table that also takes the solidus.
EscapeByte_Solidus(byte) ==
    IF byte = 47 THEN 47
    ELSE IF byte = b_quote THEN b_quote
    ELSE IF byte = b_backslash THEN b_backslash
    ELSE IF byte = b_lower_b THEN BACKSPACE_CHAR
    ELSE IF byte = b_lower_f THEN FORM_FEED_CHAR
    ELSE IF byte = b_lower_n THEN b_lf
    ELSE IF byte = b_lower_r THEN b_cr
    ELSE IF byte = b_lower_t THEN b_tab
    ELSE -1

\* The byte a single-character escape appends, or -1.
EscapeByte(byte) ==
    IF byte = b_quote THEN b_quote
    ELSE IF byte = b_backslash THEN b_backslash
    ELSE IF byte = b_lower_b THEN BACKSPACE_CHAR
    ELSE IF byte = b_lower_f THEN FORM_FEED_CHAR
    ELSE IF byte = b_lower_n THEN b_lf
    ELSE IF byte = b_lower_r THEN b_cr
    ELSE IF byte = b_lower_t THEN b_tab
    ELSE -1

\* A code point char::from_u32_unchecked may not be given.
IsSurrogate(c) == c >= 55296 /\ c <= 57343

StringInvalid == [len |-> 0, string |-> <<>>, ub |-> FALSE]

\* A control-character test that leaves out the last one.
IsControl_Below(byte) == byte < 31

\* Control characters: 0 ..= 31.
IsControl(byte) == byte <= 31

\* The while loop: k is the loop's i, out the bytes decoded so far.  The
\* loop ends at the closing quote (break) and also when k reaches len.
\* ub records that char::from_u32_unchecked was given a surrogate; the rest
\* of the result is then what the scan yields when the value goes on
\* unchecked into encode_utf8.
RECURSIVE StringScan(_, _, _)
StringScan(rb, k, out) ==
    IF k >= Len(rb) THEN [len |-> k, string |-> out, ub |-> FALSE]
    ELSE LET byte == rb[k + 1] IN
      IF IsControl(byte) THEN StringInvalid
      ELSE IF byte = b_quote
           THEN IF k > 0 THEN [len |-> k + 1, string |-> out, ub |-> FALSE]
                ELSE StringScan(rb, k + 1, out)
      ELSE IF byte = b_backslash
           THEN LET esc == Get(rb, k + 1) IN
                IF EscapeByte(esc) >= 0
                THEN StringScan(rb, k + 2, Append(out, EscapeByte(esc)))
                ELSE IF esc = b_lower_u
                THEN LET h1 == HexValue(Get(rb, k + 2))
                         h2 == HexValue(Get(rb, k + 3))
                         h3 == HexValue(Get(rb, k + 4))
                         h4 == HexValue(Get(rb, k + 5))
                         code_point == h1 * 4096 + h2 * 256 + h3 * 16 + h4
                     IN  IF h1 < 0 \/ h2 < 0 \/ h3 < 0 \/ h4 < 0
                         THEN StringInvalid
                         ELSE [StringScan(rb, k + 6, out \o EncodeUtf8(code_point))
                                 EXCEPT !.ub = @ \/ IsSurrogate(code_point)]
                ELSE StringInvalid
      ELSE StringScan(rb, k + 1, Append(out, byte))

peek_string(remaining_bytes) ==
    LET r == StringScan(remaining_bytes, 0, <<>>)
    IN  IF r.len = 0 \/ Utf8Valid(r.string, 1) THEN r
        ELSE [StringInvalid EXCEPT !.ub = r.ub]

(***************************************************************************)
(* tokenize: one iteration of the while loop at index k.                   *)
(*   out = "skip"  whitespace, k advances by len and no token is pushed    *)
(*   out = "token" token is pushed and k advances by len                   *)
(*   out = "none"  return None                                             *)
(*   out = "ub"    the iteration ran into undefined behaviour; len and     *)
(*                 token are those of the scan that went on unchecked      *)
(***************************************************************************)
IsWhitespace(byte) == byte \in {b_tab, b_lf, b_cr, b_space}

IsStructural(byte) ==
    byte \in {b_lbracket, b_rbracket, b_colon, b_comma, b_lbrace, b_rbrace}

IsKeywordStart(byte) == byte \in {b_lower_t, b_lower_f, b_lower_n}

IsNumberStart(byte) == byte = b_minus \/ IsDigit(byte)

LexOut(out, len, token) == [out |-> out, len |-> len, token |-> token]

LexNone == LexOut("none", 0, TokNull)

StructuralToken(byte) ==
    CASE byte = b_lbracket -> TokArrayBegin
      [] byte = b_rbracket -> TokArrayEnd
      [] byte = b_colon -> TokColon
      [] byte = b_comma -> TokComma
      [] byte = b_lbrace -> TokObjectBegin
      [] byte = b_rbrace -> TokObjectEnd

KeywordOf(byte) ==
    CASE byte = b_lower_t -> kw_true
      [] byte = b_lower_f -> kw_false
      [] byte = b_lower_n -> kw_null

KeywordToken(byte) ==
    CASE byte = b_lower_t -> TokBoolean(TRUE)
      [] byte = b_lower_f -> TokBoolean(FALSE)
      [] byte = b_lower_n -> TokNull

LexStep(b, k) ==
    LET byte == b[k + 1]
        rb == Remaining(b, k)
    IN  IF IsWhitespace(byte) THEN LexOut("skip", 1, TokNull)
        ELSE IF IsStructural(byte) THEN LexOut("token", 1, StructuralToken(byte))
        ELSE IF IsKeywordStart(byte)
             THEN LET n == peek_keyword(rb, KeywordOf(byte))
                  IN  IF n = 0 THEN LexNone
                      ELSE LexOut("token", n, KeywordToken(byte))
        ELSE IF IsNumberStart(byte)
             THEN LET r == peek_number(rb)
                  IN  IF r.len = 0 THEN LexNone
                      ELSE LexOut("token", r.len, TokNumber(r.number))
        ELSE IF byte = b_quote
             THEN LET r == peek_string(rb)
                  IN  IF r.ub THEN LexOut("ub", r.len, TokString(r.string))
                      ELSE IF r.len = 0 THEN LexNone
                      ELSE LexOut("token", r.len, TokString(r.string))
        ELSE LexNone

\* tokenize as a function: Some(tokens), None, or "UB".
RECURSIVE TokenizeFrom(_, _, _)
TokenizeFrom(b, k, toks) ==
    IF k >= Len(b) THEN Some(toks)
    ELSE LET r == LexStep(b, k)
         IN  IF r.out = "skip" THEN TokenizeFrom(b, k + r.len, toks)
             ELSE IF r.out = "token"
                  THEN TokenizeFrom(b, k + r.len, Append(toks, r.token))
             ELSE IF r.out = "ub" THEN [tag |-> "UB"]
             ELSE None

tokenize(b) == TokenizeFrom(b, 0, <<>>)

(***************************************************************************)
(* Json, the tree.  An Object is a BTreeMap: a function from the keys it   *)
(* holds to their values.                                                  *)
(***************************************************************************)
EmptyMap == [k \in {} |-> 0]

JsonArray(elems) == [kind |-> "Array", elems |-> elems]
JsonBoolean(b) == [kind |-> "Boolean", b |-> b]
JsonNull == [kind |-> "Null"]
JsonNumber(n) == [kind |-> "Number", n |-> n]
JsonObject(map) == [kind |-> "Object", map |-> map]
JsonString(s) == [kind |-> "String", s |-> s]

(***************************************************************************)
(* Raw pointers.  A *mut Vec<Json> or *mut BTreeMap<String, Json> is the   *)
(* address of a container.  The root container lives in the local          *)
(* root_value; every other container lives in the element storage of its   *)
(* parent, which Vec::push and BTreeMap::insert may move.  An address is   *)
(* modelled as the path of selectors from root_value to the container,     *)
(* stamped with the number of elements its parent held when the address    *)
(* was taken: containers only grow here, so the address is still the       *)
(* container's address exactly while the parent holds that many elements.  *)
(* A *mut String is the index of the token that owns the string.           *)
(***************************************************************************)
SelIndex(n) == [idx |-> n, key |-> <<>>]
SelKey(k) == [idx |-> 0, key |-> k]

\* A pointer taken before the push or insert that makes the slot.
Ptr_Early(path, stamp) == [path |-> path, stamp |-> stamp - 1]

Ptr(path, stamp) == [path |-> path, stamp |-> stamp]

RootPtr == Ptr(<<>>, 0)

Size(c) == IF c.kind = "Array" THEN Len(c.elems) ELSE Cardinality(DOMAIN c.map)

HasChild(c, sel) ==
    \/ c.kind = "Array" /\ sel.idx < Len(c.elems)
    \/ c.kind = "Object" /\ sel.key \in DOMAIN c.map

Child(c, sel) == IF c.kind = "Array" THEN c.elems[sel.idx + 1] ELSE c.map[sel.key]

RECURSIVE PathExists(_, _)
PathExists(v, path) ==
    \/ path = <<>>
    \/ /\ HasChild(v, Head(path))
       /\ PathExists(Child(v, Head(path)), Tail(path))

RECURSIVE ValueAt(_, _)
ValueAt(v, path) ==
    IF path = <<>> THEN v ELSE ValueAt(Child(v, Head(path)), Tail(path))

Front(path) == SubSeq(path, 1, Len(path) - 1)

\* The pointer still holds the address of a container of the tree.
PtrValid(root, ptr) ==
    /\ PathExists(root, ptr.path)
    /\ IF ptr.path = <<>> THEN ptr.stamp = 0
       ELSE Size(ValueAt(root, Front(ptr.path))) = ptr.stamp

RECURSIVE ReplaceAt(_, _, _)
ReplaceAt(v, path, new) ==
    IF path = <<>> THEN new
    ELSE LET sel == Head(path)
             sub == ReplaceAt(Child(v, sel), Tail(path), new)
         IN  IF v.kind = "Array"
             THEN JsonArray([v.elems EXCEPT ![sel.idx + 1] = sub])
             ELSE JsonObject([v.map EXCEPT ![sel.key] = sub])

\* A push that puts the value in front of the elements.
PushAt_Front(root, path, value) ==
    ReplaceAt(root, path, JsonArray(<<value>> \o ValueAt(root, path).elems))

\* Vec::push on the array at path.
PushAt(root, path, value) ==
    ReplaceAt(root, path, JsonArray(Append(ValueAt(root, path).elems, value)))

\* An insert that starts the object over with the one new member.
InsertAt_Fresh(root, path, key, value) ==
    ReplaceAt(root, path, JsonObject((key :> value)))

\* BTreeMap::insert / VacantEntry::insert on the object at path.
MapInsert(map, key, value) ==
    [k \in DOMAIN map \cup {key} |-> IF k = key THEN value ELSE map[k]]

InsertAt(root, path, key, value) ==
    ReplaceAt(root, path, JsonObject(MapInsert(ValueAt(root, path).map, key, value)))

\* get_vec and get_map: TRUE when the pointer is returned, FALSE when
\* unreachable!() is executed.
get_vec(value) == value.kind = "Array"
get_map(value) == value.kind = "Object"

(***************************************************************************)
(* parse::State, the frames of the stack.                                  *)
(***************************************************************************)
Frame(st) == [st |-> st]
FrameP(st, ptr) == [st |-> st, ptr |-> ptr]
FrameK(st, ptr, key) == [st |-> st, ptr |-> ptr, key |-> key]

ArrayStates == {"ArrayBegin", "ArrayComma", "ArrayValue"}
ObjectStates == {"ObjectBegin", "ObjectColon", "ObjectComma", "ObjectKey", "ObjectValue"}

\* A replacement of the top frame that pushes the new frame instead.
SetTop_Push(stk, frame) == Append(stk, frame)

Top(stk) == stk[Len(stk)]

SetTop(stk, frame) == [stk EXCEPT ![Len(stk)] = frame]

Pop(stk) == SubSeq(stk, 1, Len(stk) - 1)

\* Dereferencing a frame's pointer (&mut **p) is defined only while the
\* pointer is valid and the container there is of the pointer's type.
DerefOk(root, frame) ==
    /\ PtrValid(root, frame.ptr)
    /\ ValueAt(root, frame.ptr.path).kind
         = (IF frame.st \in ArrayStates THEN "Array" ELSE "Object")

(***************************************************************************)
(* parse: the body of the for loop, one operator per token arm.  A step    *)
(* yields the locals after it and how the iteration ended:                 *)
(*   "ok"     the loop goes on to the next token                           *)
(*   "none"   return None                                                  *)
(*   "abort"  unreachable!() was executed                                  *)
(*   "ub"     a dangling pointer was dereferenced                          *)
(***************************************************************************)
Step(out, stk, root, toks) ==
    [out |-> out, stack |-> stk, root |-> root, toks |-> toks]

Keep(out, ps) == Step(out, ps.stack, ps.root, ps.toks)

\* core::mem::take on the string of token k.
TakeString(toks, k) == [toks EXCEPT ![k].s = <<>>]

\* A map that never reports a key as taken (last write wins).
KeyOccupied_Never(map, key) == FALSE

\* The key is already in the map: Entry::Occupied, or insert returning
\* Some(_old_value).
KeyOccupied(map, key) == key \in DOMAIN map

\* The arms that open a container (Token::ArrayBegin, Token::ObjectBegin):
\* empty is the new container and childSt the state of the frame pushed.
OpenContainer(ps, empty, childSt) ==
    LET top == Top(ps.stack)
        got(v) == IF childSt = "ArrayBegin" THEN get_vec(v) ELSE get_map(v)
    IN  CASE top.st = "Start" ->
               IF got(empty)
               THEN Step("ok",
                         Append(SetTop(ps.stack, Frame("RootValue")),
                                FrameP(childSt, RootPtr)),
                         empty, ps.toks)
               ELSE Keep("abort", ps)
          [] top.st \in {"ArrayBegin", "ArrayComma"} ->
               IF ~DerefOk(ps.root, top) THEN Keep("ub", ps)
               ELSE LET root2 == PushAt(ps.root, top.ptr.path, empty)
                        len == Len(ValueAt(root2, top.ptr.path).elems)
                        last_i == len - 1
                        child == Ptr(Append(top.ptr.path, SelIndex(last_i)), len)
                        stk == SetTop(ps.stack, FrameP("ArrayValue", top.ptr))
                    IN  IF got(ValueAt(root2, child.path))
                        THEN Step("ok", Append(stk, FrameP(childSt, child)),
                                  root2, ps.toks)
                        ELSE Step("abort", stk, root2, ps.toks)
          [] top.st = "ObjectColon" ->
               IF ~DerefOk(ps.root, top) THEN Keep("ub", ps)
               ELSE LET key == ps.toks[top.key].s
                        toks2 == TakeString(ps.toks, top.key)
                        object == ValueAt(ps.root, top.ptr.path)
                        root2 == InsertAt(ps.root, top.ptr.path, key, empty)
                        child == Ptr(Append(top.ptr.path, SelKey(key)),
                                     Size(ValueAt(root2, top.ptr.path)))
                        stk == SetTop(ps.stack, FrameP("ObjectValue", top.ptr))
                    IN  IF KeyOccupied(object.map, key)
                        THEN Step("none", ps.stack, ps.root, toks2)
                        ELSE IF got(ValueAt(root2, child.path))
                        THEN Step("ok", Append(stk, FrameP(childSt, child)),
                                  root2, toks2)
                        ELSE Step("abort", stk, root2, toks2)
          [] OTHER -> Keep("none", ps)

\* The arms that store a value that is no container (Token::Boolean,
\* Token::Null, Token::Number, and the first three arms of Token::String).
PutValue(ps, value) ==
    LET top == Top(ps.stack)
    IN  CASE top.st = "Start" ->
               Step("ok", SetTop(ps.stack, Frame("RootValue")), value, ps.toks)
          [] top.st \in {"ArrayBegin", "ArrayComma"} ->
               IF ~DerefOk(ps.root, top) THEN Keep("ub", ps)
               ELSE Step("ok", SetTop(ps.stack, FrameP("ArrayValue", top.ptr)),
                         PushAt(ps.root, top.ptr.path, value), ps.toks)
          [] top.st = "ObjectColon" ->
               IF ~DerefOk(ps.root, top) THEN Keep("ub", ps)
               ELSE LET key == ps.toks[top.key].s
                        toks2 == TakeString(ps.toks, top.key)
                        object == ValueAt(ps.root, top.ptr.path)
                        root2 == InsertAt(ps.root, top.ptr.path, key, value)
                    IN  IF KeyOccupied(object.map, key)
                        THEN Step("none", ps.stack, root2, toks2)
                        ELSE Step("ok",
                                  SetTop(ps.stack, FrameP("ObjectValue", top.ptr)),
                                  root2, toks2)
          [] OTHER -> Keep("none", ps)

\* An ObjectBegin arm that pushes the frame of an array for the new object.
OnObjectBegin_ArrayFrame(ps) ==
    OpenContainer(ps, JsonObject(EmptyMap), "ArrayBegin")

OnArrayBegin(ps) == OpenContainer(ps, JsonArray(<<>>), "ArrayBegin")

OnObjectBegin(ps) == OpenContainer(ps, JsonObject(EmptyMap), "ObjectBegin")

\* A ']' that also closes the array right after a comma.
ArrayEndStates_Lenient == {"ArrayBegin", "ArrayValue", "ArrayComma"}

\* The states in which ']' and '}' pop the frame.
ArrayEndStates == {"ArrayBegin", "ArrayValue"}

ObjectEndStates == {"ObjectBegin", "ObjectValue"}

OnArrayEnd(ps) ==
    IF Top(ps.stack).st \in ArrayEndStates
    THEN Step("ok", Pop(ps.stack), ps.root, ps.toks)
    ELSE Keep("none", ps)

OnObjectEnd(ps) ==
    IF Top(ps.stack).st \in ObjectEndStates
    THEN Step("ok", Pop(ps.stack), ps.root, ps.toks)
    ELSE Keep("none", ps)

\* A Null arm that takes a second root value in state RootValue.
OnNull_AfterRoot(ps) ==
    IF Top(ps.stack).st = "RootValue"
    THEN Step("ok", ps.stack, JsonNull, ps.toks)
    ELSE PutValue(ps, JsonNull)

OnBoolean(ps, value) == PutValue(ps, JsonBoolean(value))

OnNull(ps) == PutValue(ps, JsonNull)

\* A Number arm that leaves the state Start in place at the root.
OnNumber_KeepStart(ps, value) ==
    IF Top(ps.stack).st = "Start"
    THEN Step("ok", ps.stack, JsonNumber(value), ps.toks)
    ELSE PutValue(ps, JsonNumber(value))

OnNumber(ps, value) == PutValue(ps, JsonNumber(value))

OnColon(ps) ==
    LET top == Top(ps.stack)
    IN  IF top.st = "ObjectKey"
        THEN IF ~DerefOk(ps.root, top) THEN Keep("ub", ps)
             ELSE Step("ok", SetTop(ps.stack, FrameK("ObjectColon", top.ptr, top.key)),
                       ps.root, ps.toks)
        ELSE Keep("none", ps)

OnComma(ps) ==
    LET top == Top(ps.stack)
    IN  IF top.st = "ArrayValue"
        THEN Step("ok", SetTop(ps.stack, FrameP("ArrayComma", top.ptr)),
                  ps.root, ps.toks)
        ELSE IF top.st = "ObjectValue"
        THEN Step("ok", SetTop(ps.stack, FrameP("ObjectComma", top.ptr)),
                  ps.root, ps.toks)
        ELSE Keep("none", ps)

\* Token::String at token index k: a value, or the key of an object.
OnString(ps, k) ==
    LET top == Top(ps.stack)
    IN  IF top.st \in {"Start", "ArrayBegin", "ArrayComma", "ObjectColon"}
        THEN PutValue([ps EXCEPT !.toks = TakeString(ps.toks, k)],
                      JsonString(ps.toks[k].s))
        ELSE IF top.st \in {"ObjectBegin", "ObjectComma"}
        THEN IF ~DerefOk(ps.root, top) THEN Keep("ub", ps)
             ELSE Step("ok", SetTop(ps.stack, FrameK("ObjectKey", top.ptr, k)),
                       ps.root, ps.toks)
        ELSE Keep("none", ps)

\* match token { ... } on token k; stack.last() of an empty stack is None.
ParseToken(ps, k) ==
    LET token == ps.toks[k]
    IN  IF Len(ps.stack) = 0 THEN Keep("none", ps)
        ELSE CASE token.kind = "ArrayBegin" -> OnArrayBegin(ps)
               [] token.kind = "ArrayEnd" -> OnArrayEnd(ps)
               [] token.kind = "Boolean" -> OnBoolean(ps, token.b)
               [] token.kind = "Colon" -> OnColon(ps)
               [] token.kind = "Comma" -> OnComma(ps)
               [] token.kind = "Null" -> OnNull(ps)
               [] token.kind = "Number" -> OnNumber(ps, token.n)
               [] token.kind = "ObjectBegin" -> OnObjectBegin(ps)
               [] token.kind = "ObjectEnd" -> OnObjectEnd(ps)
               [] token.kind = "String" -> OnString(ps, k)

\* An accepting condition that takes whatever state the stack is left in.
Accept_Any(stk, root) == Some(root)

\* The accepting condition after the loop.
Accept(stk, root) ==
    IF Len(stk) > 0 /\ Top(stk).st = "RootValue" THEN Some(root) ELSE None

InitialStack == <<Frame("Start")>>

\* parse as a function of the token slice: Some(tree) or None; "Abort" and
\* "UB" stand for the two ways a run can leave the language's semantics.
RECURSIVE ParseFrom(_, _)
ParseFrom(ps, k) ==
    IF k > Len(ps.toks) THEN Accept(ps.stack, ps.root)
    ELSE LET r == ParseToken(ps, k)
         IN  IF r.out = "ok" THEN ParseFrom(r, k + 1)
             ELSE IF r.out = "none" THEN None
             ELSE IF r.out = "abort" THEN [tag |-> "Abort"]
             ELSE [tag |-> "UB"]

parse(toks) == ParseFrom(Step("ok", InitialStack, JsonNull, toks), 1)

\* Json::parse: parse(&mut tokenize(bytes)?)
JsonParse(b) ==
    LET t == tokenize(b)
    IN  IF t.tag = "Some" THEN parse(t.v) ELSE t

(***************************************************************************)
(* The inputs the model runs on.                                           *)
(***************************************************************************)
MaxTokens == 9
MaxLexemes == 4
MaxNumberLen == 4
MaxStringLen == 3
MaxWhitespaceLen == 3
MaxPrefixLen == 5
MaxShortPrefixLen == 1

SeqsUpTo(S, n) == UNION {[1..k -> S] : k \in 0..n}

RECURSIVE Flatten(_)
Flatten(ss) == IF ss = <<>> THEN <<>> ELSE Head(ss) \o Flatten(Tail(ss))

str_a == <<b_lower_a>>
str_b == <<b_lower_b>>
lit_a == <<b_quote, b_lower_a, b_quote>>

NumberOne == F64FromStr(<<b_1>>).val

\* The tokens a slice handed to parse is drawn from.
TokenAlphabet ==
    {TokArrayBegin, TokArrayEnd, TokBoolean(TRUE), TokColon, TokComma, TokNull,
     TokNumber(NumberOne), TokObjectBegin, TokObjectEnd,
     TokString(str_a), TokString(str_b)}

\* Buffers made of whole lexemes and single whitespace bytes.
Lexemes ==
    {<<b_lbracket>>, <<b_rbracket>>, <<b_lbrace>>, <<b_rbrace>>, <<b_colon>>,
     <<b_comma>>, <<b_space>>, <<b_1>>, lit_a, kw_true, kw_null}

StructInputs == {Flatten(ls) : ls \in SeqsUpTo(Lexemes, MaxLexemes)}

\* Buffers that put a run of number bytes at the root, in an array and in
\* an object, with and without bytes after it.
NumberAlphabet == {b_minus, b_0, b_1, b_dot, b_lower_e, b_plus}

NumberContexts ==
    {<<<<>>, <<>>>>,
     <<<<>>, <<b_space>>>>,
     <<<<b_lbracket>>, <<b_rbracket>>>>,
     <<<<b_lbracket>>, <<>>>>,
     <<<<b_lbrace>> \o lit_a \o <<b_colon>>, <<b_rbrace>>>>,
     <<<<b_lbracket, b_1, b_comma>>, <<b_rbracket>>>>}

NumberInputs ==
    {c[1] \o body \o c[2] :
        c \in NumberContexts, body \in SeqsUpTo(NumberAlphabet, MaxNumberLen)}

\* Buffers that open a string literal and go on with string bytes.
StringAlphabet == {b_quote, b_backslash, b_lower_a, b_lower_n, b_space, b_lf}

StringContexts ==
    {<<<<>>, <<>>>>,
     <<<<b_lbracket>>, <<b_rbracket>>>>,
     <<<<b_lbrace>>, <<b_colon, b_1, b_rbrace>>>>}

StringInputs ==
    {c[1] \o <<b_quote>> \o body \o c[2] :
        c \in StringContexts, body \in SeqsUpTo(StringAlphabet, MaxStringLen)}

\* Buffers of whitespace only.
WhitespaceAlphabet == {b_space, b_tab, b_lf, b_cr}

WhitespaceInputs == SeqsUpTo(WhitespaceAlphabet, MaxWhitespaceLen)

Inputs == UNION {StructInputs, NumberInputs, StringInputs, WhitespaceInputs}

\* Buffers for the escapes of a string literal.  A backslash and any one
\* byte, between plain bytes:
PlainRuns == {<<>>, <<b_lower_a>>}

EscapeInputs ==
    {<<b_quote>> \o pre \o <<b_backslash, x>> \o post \o <<b_quote>> :
        pre \in PlainRuns, x \in 0..255, post \in PlainRuns}
    \cup {<<b_quote>> \o pre \o <<b_backslash>> : pre \in PlainRuns}

\* \u and four hex digits, every choice of them:
HexDigits ==
    (b_0 .. b_9) \cup (b_upper_A .. b_upper_F) \cup (b_lower_a .. b_lower_f)

UnicodeInput(h1, h2, h3, h4) ==
    <<b_quote, b_backslash, b_lower_u, h1, h2, h3, h4, b_quote>>

\* \u and up to four bytes, hex digits and the bytes next to their ranges:
SlotAlphabet == {b_1, b_upper_F, b_lower_a, b_quote, 47, 58, 64, 71, 96, 103}

BadUnicodeInputs ==
    {<<b_quote, b_backslash, b_lower_u>> \o body \o post :
        body \in SeqsUpTo(SlotAlphabet, 4), post \in {<<>>, <<b_quote>>}}

\* A control byte after what can precede it in a literal:
PrefixAlphabet == {b_backslash, b_lower_u, b_1, b_lower_n}

ControlInputs ==
    {<<b_quote>> \o pre \o <<c>> \o post :
        pre \in SeqsUpTo(PrefixAlphabet, MaxPrefixLen), c \in {0, b_lf, 31},
        post \in {<<>>, <<b_quote>>}}
    \cup
    {<<b_quote>> \o pre \o <<c>> \o post :
        pre \in SeqsUpTo(PrefixAlphabet, MaxShortPrefixLen), c \in 0..31,
        post \in {<<>>, <<b_quote>>, <<b_lower_a, b_quote>>}}

EscapeBuffers ==
    UNION {Inputs, EscapeInputs, BadUnicodeInputs, ControlInputs}

(***************************************************************************)
(* The state machine.  pc is where the call of Json::parse stands:         *)
(* "tokenize" in the loop of tokenize, "parse" in the loop of parse,       *)
(* "done" returned (result holds the Option), "abort" unreachable!() was   *)
(* executed, "panic" the check of an unsafe precondition panicked, "ub" a  *)
(* dangling pointer was dereferenced.  tokens is the Vec                   *)
(* tokenize fills and parse consumes; input keeps the tokens as they were  *)
(* handed to parse, before parse took strings out of them.                 *)
(***************************************************************************)
Locals == Step("ok", stack, root_value, tokens)

\* What a build makes of an iteration: where char::from_u32_unchecked was
\* given a surrogate, either the check of its precondition panics (a build
\* with debug assertions) or the value goes on unchecked.
Outcomes(r) ==
    IF r.out = "ub"
    THEN {"panic", IF r.len = 0 THEN "none" ELSE "token"}
    ELSE {r.out}

ApplyLex(r) ==
    \E o \in Outcomes(r) :
        /\ i' = IF o \in {"skip", "token"} THEN i + r.len ELSE i
        /\ tokens' = IF o = "token" THEN Append(tokens, r.token) ELSE tokens
        /\ pc' = CASE o \in {"skip", "token"} -> "tokenize"
                   [] o = "none" -> "done"
                   [] o = "panic" -> "panic"
        /\ UNCHANGED <<bytes, input, ti, stack, root_value, result>>

AtByte == pc = "tokenize" /\ i < Len(bytes)

LexWhitespace ==
    AtByte /\ IsWhitespace(bytes[i + 1]) /\ ApplyLex(LexStep(bytes, i))

LexStructural ==
    AtByte /\ IsStructural(bytes[i + 1]) /\ ApplyLex(LexStep(bytes, i))

LexKeyword ==
    AtByte /\ IsKeywordStart(bytes[i + 1]) /\ ApplyLex(LexStep(bytes, i))

LexNumber ==
    AtByte /\ IsNumberStart(bytes[i + 1]) /\ ApplyLex(LexStep(bytes, i))

LexString ==
    AtByte /\ bytes[i + 1] = b_quote /\ ApplyLex(LexStep(bytes, i))

LexOther ==
    /\ AtByte
    /\ ~IsWhitespace(bytes[i + 1]) /\ ~IsStructural(bytes[i + 1])
    /\ ~IsKeywordStart(bytes[i + 1]) /\ ~IsNumberStart(bytes[i + 1])
    /\ bytes[i + 1] # b_quote
    /\ ApplyLex(LexStep(bytes, i))

\* tokenize returns Some(tokens) and parse is entered.
TokenizeReturn ==
    /\ pc = "tokenize" /\ i >= Len(bytes)
    /\ pc' = "parse"
    /\ input' = tokens
    /\ ti' = 1
    /\ UNCHANGED <<bytes, i, tokens, stack, root_value, result>>

ApplyParse(r) ==
    /\ stack' = r.stack
    /\ root_value' = r.root
    /\ tokens' = r.toks
    /\ ti' = IF r.out = "ok" THEN ti + 1 ELSE ti
    /\ pc' = CASE r.out = "ok" -> "parse"
               [] r.out = "none" -> "done"
               [] r.out = "abort" -> "abort"
               [] r.out = "ub" -> "ub"
    /\ UNCHANGED <<bytes, i, input, result>>

AtToken(kind) == pc = "parse" /\ ti <= Len(tokens) /\ tokens[ti].kind = kind

ParseArrayBegin == AtToken("ArrayBegin") /\ ApplyParse(ParseToken(Locals, ti))
ParseArrayEnd == AtToken("ArrayEnd") /\ ApplyParse(ParseToken(Locals, ti))
ParseBoolean == AtToken("Boolean") /\ ApplyParse(ParseToken(Locals, ti))
ParseColon == AtToken("Colon") /\ ApplyParse(ParseToken(Locals, ti))
ParseComma == AtToken("Comma") /\ ApplyParse(ParseToken(Locals, ti))
ParseNull == AtToken("Null") /\ ApplyParse(ParseToken(Locals, ti))
ParseNumber == AtToken("Number") /\ ApplyParse(ParseToken(Locals, ti))
ParseObjectBegin == AtToken("ObjectBegin") /\ ApplyParse(ParseToken(Locals, ti))
ParseObjectEnd == AtToken("ObjectEnd") /\ ApplyParse(ParseToken(Locals, ti))
ParseString == AtToken("String") /\ ApplyParse(ParseToken(Locals, ti))

\* The loop is over: the accepting condition decides the result.
ParseReturn ==
    /\ pc = "parse" /\ ti > Len(tokens)
    /\ result' = Accept(stack, root_value)
    /\ pc' = "done"
    /\ UNCHANGED <<bytes, i, tokens, input, ti, stack, root_value>>

ParseStep ==
    \/ ParseArrayBegin \/ ParseArrayEnd \/ ParseBoolean \/ ParseColon
    \/ ParseComma \/ ParseNull \/ ParseNumber \/ ParseObjectBegin
    \/ ParseObjectEnd \/ ParseString

\* The slice handed to parse, revealed one token at a time as the loop
\* comes to read it: the loop reads the slice once, left to right, so what
\* follows the token being read has no part in the step.
Supply(token) ==
    /\ pc = "parse" /\ ti = Len(tokens) + 1
    /\ Len(tokens) < MaxTokens
    /\ tokens' = Append(tokens, token)
    /\ input' = Append(input, token)
    /\ UNCHANGED <<bytes, i, ti, stack, root_value, pc, result>>

InitLocals ==
    /\ i = 0
    /\ tokens = <<>>
    /\ input = <<>>
    /\ ti = 1
    /\ stack = InitialStack
    /\ root_value = JsonNull
    /\ result = None

\* Json::parse on a buffer.
Init == bytes \in Inputs /\ pc = "tokenize" /\ InitLocals

Next ==
    \/ LexWhitespace \/ LexStructural \/ LexKeyword \/ LexNumber
    \/ LexString \/ LexOther \/ TokenizeReturn
    \/ ParseStep \/ ParseReturn

Spec == Init /\ [][Next]_vars

\* Json::parse on the buffers that exercise the escapes of string literals.
InitEscapes ==
    /\ \/ bytes \in EscapeBuffers
       \/ \E h1 \in HexDigits, h2 \in HexDigits, h3 \in HexDigits, h4 \in HexDigits :
             bytes = UnicodeInput(h1, h2, h3, h4)
    /\ pc = "tokenize"
    /\ InitLocals

SpecEscapes == InitEscapes /\ [][Next]_vars

\* parse on a token slice.
InitParse == bytes = <<>> /\ pc = "parse" /\ InitLocals

NextParse ==
    \/ \E token \in TokenAlphabet : Supply(token)
    \/ ParseStep \/ ParseReturn

SpecParse == InitParse /\ [][NextParse]_vars

(***************************************************************************)
(* The grammar, as a recursive descent over a token sequence t from        *)
(* position p:                                                             *)
(*   value   := scalar | '[' [ value { ',' value } ] ']'                   *)
(*            | '{' [ member { ',' member } ] '}'                          *)
(*   member  := string ':' value                                           *)
(* with the keys of one object all different.  The outcome is "ok" with    *)
(* the tree and the position after the value, "more" when the tokens end   *)
(* inside the value, or "err" at the first token the grammar does not      *)
(* allow (no continuation of the sequence is a value then).                *)
(***************************************************************************)
RefOk(v, next) == [st |-> "ok", v |-> v, next |-> next]
RefMore == [st |-> "more", v |-> JsonNull, next |-> 0]
RefErr == [st |-> "err", v |-> JsonNull, next |-> 0]

RECURSIVE RefValue(_, _)
RECURSIVE RefElements(_, _, _)
RECURSIVE RefMembers(_, _, _)

RefValue(t, p) ==
    IF p > Len(t) THEN RefMore
    ELSE CASE t[p].kind = "Null" -> RefOk(JsonNull, p + 1)
           [] t[p].kind = "Boolean" -> RefOk(JsonBoolean(t[p].b), p + 1)
           [] t[p].kind = "Number" -> RefOk(JsonNumber(t[p].n), p + 1)
           [] t[p].kind = "String" -> RefOk(JsonString(t[p].s), p + 1)
           [] t[p].kind = "ArrayBegin" ->
                IF p + 1 > Len(t) THEN RefMore
                ELSE IF t[p + 1].kind = "ArrayEnd" THEN RefOk(JsonArray(<<>>), p + 2)
                ELSE RefElements(t, p + 1, <<>>)
           [] t[p].kind = "ObjectBegin" ->
                IF p + 1 > Len(t) THEN RefMore
                ELSE IF t[p + 1].kind = "ObjectEnd"
                     THEN RefOk(JsonObject(EmptyMap), p + 2)
                ELSE RefMembers(t, p + 1, EmptyMap)
           [] OTHER -> RefErr

RefElements(t, p, acc) ==
    LET r == RefValue(t, p)
    IN  IF r.st # "ok" THEN r
        ELSE IF r.next > Len(t) THEN RefMore
        ELSE IF t[r.next].kind = "Comma"
             THEN RefElements(t, r.next + 1, Append(acc, r.v))
        ELSE IF t[r.next].kind = "ArrayEnd"
             THEN RefOk(JsonArray(Append(acc, r.v)), r.next + 1)
        ELSE RefErr

RefMembers(t, p, acc) ==
    IF p > Len(t) THEN RefMore
    ELSE IF t[p].kind # "String" THEN RefErr
    ELSE IF t[p].s \in DOMAIN acc THEN RefErr
    ELSE IF p + 1 > Len(t) THEN RefMore
    ELSE IF t[p + 1].kind # "Colon" THEN RefErr
    ELSE LET r == RefValue(t, p + 2)
             acc2 == [k \in DOMAIN acc \cup {t[p].s} |->
                        IF k = t[p].s THEN r.v ELSE acc[k]]
         IN  IF r.st # "ok" THEN r
             ELSE IF r.next > Len(t) THEN RefMore
             ELSE IF t[r.next].kind = "Comma" THEN RefMembers(t, r.next + 1, acc2)
             ELSE IF t[r.next].kind = "ObjectEnd"
                  THEN RefOk(JsonObject(acc2), r.next + 1)
             ELSE RefErr

\* The whole sequence is one value and nothing else.
RefParse(t) ==
    LET r == RefValue(t, 1)
    IN  IF r.st = "ok" /\ r.next # Len(t) + 1 THEN RefErr ELSE r

\* parse returned None from inside the loop, at token ti (tokenize, where
\* it ran, had reached the end of the buffer).
FailedAtToken == pc = "done" /\ i >= Len(bytes) /\ ti <= Len(tokens)

\* parse returned from the accepting condition after the loop.
ReturnedAtEnd == pc = "done" /\ i >= Len(bytes) /\ ti > Len(tokens)

(***************************************************************************)
(* C1: for every token sequence, parse returns Some(v) exactly when the    *)
(* sequence is one complete value of the grammar with unique keys, and v   *)
(* is then the tree the reference parser builds; for every other sequence  *)
(* it returns None.  A None returned from inside the loop leaves the rest  *)
(* of the sequence unread, so there the grammar must already rule out      *)
(* every continuation ("err").                                             *)
(***************************************************************************)
C1_ParseMatchesGrammar ==
    pc = "done" =>
        /\ result = (IF RefParse(input).st = "ok"
                     THEN Some(RefParse(input).v) ELSE None)
        /\ FailedAtToken => RefParse(input).st = "err"

\* An object holding a non-empty array, and an array holding two elements
\* in token order, were returned.
C1_Witness ==
    /\ ReturnedAtEnd
    /\ result.tag = "Some"
    /\ result.v.kind = "Object"
    /\ \E k \in DOMAIN result.v.map :
          /\ result.v.map[k].kind = "Array"
          /\ Len(result.v.map[k].elems) = 2
          /\ result.v.map[k].elems[1] # result.v.map[k].elems[2]

(***************************************************************************)
(* C4: duplicate keys within one object always make the parse fail, at any *)
(* depth and whatever the kinds of the two values: no token sequence in    *)
(* which an object repeats a key is answered with a tree.  The repetition  *)
(* is found in the token sequence alone: ctx holds, for every container    *)
(* open at position p, the keys seen in it so far.                         *)
(***************************************************************************)
RECURSIVE DuplicateKeyFrom(_, _, _)
DuplicateKeyFrom(t, p, ctx) ==
    IF p > Len(t) THEN FALSE
    ELSE CASE t[p].kind = "ObjectBegin" ->
                DuplicateKeyFrom(t, p + 1, Append(ctx, [obj |-> TRUE, keys |-> {}]))
           [] t[p].kind = "ArrayBegin" ->
                DuplicateKeyFrom(t, p + 1, Append(ctx, [obj |-> FALSE, keys |-> {}]))
           [] t[p].kind \in {"ArrayEnd", "ObjectEnd"} ->
                DuplicateKeyFrom(t, p + 1,
                                 IF ctx = <<>> THEN ctx ELSE Pop(ctx))
           [] t[p].kind = "String" /\ p < Len(t) /\ ctx # <<>> ->
                IF t[p + 1].kind = "Colon" /\ Top(ctx).obj
                THEN \/ t[p].s \in Top(ctx).keys
                     \/ DuplicateKeyFrom(t, p + 1,
                            SetTop(ctx, [obj |-> TRUE,
                                         keys |-> Top(ctx).keys \cup {t[p].s}]))
                ELSE DuplicateKeyFrom(t, p + 1, ctx)
           [] OTHER -> DuplicateKeyFrom(t, p + 1, ctx)

HasDuplicateKey(t) == DuplicateKeyFrom(t, 1, <<>>)

C4_DuplicateKeysFail ==
    (pc = "done" /\ HasDuplicateKey(input)) => result = None

\* The second occurrence of a key of an object nested in an array got a
\* container as its value, the first a scalar, and the insert was refused.
C4_Witness ==
    /\ FailedAtToken
    /\ result = None
    /\ tokens[ti].kind \in {"ArrayBegin", "ObjectBegin"}
    /\ Len(stack) >= 3
    /\ Top(stack).st = "ObjectColon"
    /\ KeyOccupied(ValueAt(root_value, Top(stack).ptr.path).map,
                   input[Top(stack).key].s)
    /\ ValueAt(root_value, Top(stack).ptr.path).map[input[Top(stack).key].s].kind
         \in {"Number", "Null", "Boolean", "String"}

(***************************************************************************)
(* C6: RootValue is terminal.  Once the root value is complete (the stack  *)
(* is exactly [RootValue]) the step of the loop on any further token, of   *)
(* any kind, returns None.                                                 *)
(***************************************************************************)
RootComplete == Len(stack) = 1 /\ stack[1].st = "RootValue"

C6_RootValueTerminal ==
    [][(pc = "parse" /\ RootComplete /\ ti <= Len(tokens))
          => (pc' = "done" /\ result' = None)]_vars

\* A token after a complete root array was read and refused.
C6_Witness ==
    /\ FailedAtToken
    /\ result = None
    /\ RootComplete
    /\ root_value.kind = "Array"
    /\ Len(root_value.elems) >= 1
    /\ ti >= 4

(***************************************************************************)
(* C7: a comma must be followed by another element.  No token sequence in  *)
(* which a ',' is directly followed by ']' or '}' is answered with a tree, *)
(* and the loop returns None at a ']' read in state ArrayComma and at a    *)
(* '}' read in state ObjectComma.                                          *)
(***************************************************************************)
HasTrailingComma(t) ==
    \E k \in 1..(Len(t) - 1) :
        t[k].kind = "Comma" /\ t[k + 1].kind \in {"ArrayEnd", "ObjectEnd"}

CloserAfterComma ==
    /\ pc = "parse"
    /\ ti <= Len(tokens)
    /\ \/ tokens[ti].kind = "ArrayEnd" /\ Top(stack).st = "ArrayComma"
       \/ tokens[ti].kind = "ObjectEnd" /\ Top(stack).st = "ObjectComma"

C7_TrailingCommaFails ==
    /\ []((pc = "done" /\ HasTrailingComma(input)) => result = None)
    /\ [][CloserAfterComma => (pc' = "done" /\ result' = None)]_vars

\* The '}' after the comma of an object nested in an array was refused.
C7_Witness ==
    /\ FailedAtToken
    /\ result = None
    /\ tokens[ti].kind = "ObjectEnd"
    /\ Top(stack).st = "ObjectComma"
    /\ Len(stack) >= 3
    /\ HasTrailingComma(input)

(***************************************************************************)
(* C10: no token sequence runs into unreachable!().  In every reachable    *)
(* state unreachable!() has not been executed, and every frame that holds  *)
(* a container pointer points at a container of the frame's own kind, so   *)
(* the value get_vec is handed is an Array and the value get_map is handed *)
(* an Object.                                                              *)
(***************************************************************************)
FrameKindMatches(frame) ==
    frame.st \in (ArrayStates \cup ObjectStates) =>
        /\ PathExists(root_value, frame.ptr.path)
        /\ ValueAt(root_value, frame.ptr.path).kind
             = (IF frame.st \in ArrayStates THEN "Array" ELSE "Object")

C10_NeverUnreachable ==
    /\ pc # "abort"
    /\ \A k \in 1..Len(stack) : FrameKindMatches(stack[k])

\* Array and object frames are on the stack together, three containers
\* deep, the innermost just opened by get_vec or get_map.
C10_Witness ==
    /\ pc = "parse"
    /\ Len(stack) >= 4
    /\ \E k \in 1..Len(stack) : stack[k].st \in ArrayStates
    /\ \E k \in 1..Len(stack) : stack[k].st \in ObjectStates
    /\ Top(stack).st \in {"ArrayBegin", "ObjectBegin"}

(***************************************************************************)
(* Where the string literals of a buffer lie, by the quotes and            *)
(* backslashes alone: the mode after the first k bytes is "out" (outside   *)
(* every literal), "in" (inside one) or "esc" (inside one, after a         *)
(* backslash).                                                             *)
(***************************************************************************)
RECURSIVE ModeAfter(_, _)
ModeAfter(b, k) ==
    IF k = 0 THEN "out"
    ELSE LET m == ModeAfter(b, k - 1)
         IN  CASE m = "out" -> IF b[k] = b_quote THEN "in" ELSE "out"
               [] m = "in" -> IF b[k] = b_quote THEN "out"
                              ELSE IF b[k] = b_backslash THEN "esc"
                              ELSE "in"
               [] m = "esc" -> "in"

\* Byte k of b is not part of a string literal's content.
Outside(b, k) == ModeAfter(b, k - 1) = "out"

EndsInsideString(b) == ModeAfter(b, Len(b)) # "out"

DigitAt(b, k) == k \in 1..Len(b) /\ IsDigit(b[k])

TokenizeDone == i >= Len(bytes)

(***************************************************************************)
(* C2: a string literal that is not closed by an unescaped '"' before the  *)
(* end of the buffer makes the lexer fail: on a buffer that ends inside a  *)
(* string literal tokenize never returns Some (parse is not entered), and  *)
(* Json::parse returns None.                                               *)
(***************************************************************************)
C2_UnclosedStringFails ==
    EndsInsideString(bytes) =>
        /\ pc # "parse"
        /\ pc = "done" => result = None

(***************************************************************************)
(* C3: a number with a missing mandatory component always fails, wherever  *)
(* it stands in the buffer: a '-' with no digit after it, a '.' with no    *)
(* digit before it or no digit after it, an exponent marker after a digit  *)
(* with neither digit nor sign after it, and a '+' with no digit after it, *)
(* each outside the string literals, make Json::parse return None.         *)
(***************************************************************************)
MissingNumberPart(b) ==
    \E k \in 1..Len(b) :
        /\ Outside(b, k)
        /\ \/ b[k] = b_minus /\ ~DigitAt(b, k + 1)
           \/ b[k] = b_dot /\ (~DigitAt(b, k - 1) \/ ~DigitAt(b, k + 1))
           \/ /\ IsExpMark(b[k]) /\ DigitAt(b, k - 1) /\ ~DigitAt(b, k + 1)
              /\ ~(k < Len(b) /\ b[k + 1] \in {b_plus, b_minus})
           \/ b[k] = b_plus /\ ~DigitAt(b, k + 1)

C3_IncompleteNumberFails ==
    (pc = "done" /\ MissingNumberPart(bytes)) => result = None

(***************************************************************************)
(* C5: Json::parse returns Some only if, after all tokens are consumed,    *)
(* the top of the frame stack is RootValue; so the empty buffer, a buffer  *)
(* of whitespace only, and a buffer whose tokens stop inside a value of    *)
(* the grammar (an array or object still open) return None.                *)
(***************************************************************************)
AllWhitespace(b) == \A k \in 1..Len(b) : IsWhitespace(b[k])

EndsOpen == TokenizeDone /\ RefParse(input).st = "more"

C5_SomeOnlyAtRootValue ==
    pc = "done" =>
        /\ result.tag = "Some" =>
              /\ TokenizeDone /\ ti > Len(tokens)
              /\ Len(stack) > 0 /\ Top(stack).st = "RootValue"
        /\ (AllWhitespace(bytes) \/ EndsOpen) => result = None

\* The tokens ended two containers deep and None was returned.
C5_Witness ==
    /\ ReturnedAtEnd
    /\ Len(stack) >= 3
    /\ Top(stack).st \in (ArrayStates \cup ObjectStates)
    /\ EndsOpen
    /\ result = None

(***************************************************************************)
(* C8: leading zeros always fail end to end.  Every buffer in which a '0'  *)
(* that starts the integer part of a number (first in the buffer, or after *)
(* a byte that cannot precede it inside a number, or after a '-' that is   *)
(* no exponent sign) is directly followed by a digit, outside the string   *)
(* literals, makes Json::parse return None.                                *)
(***************************************************************************)
StartsInteger(b, k) ==
    \/ k = 1
    \/ /\ k > 1
       /\ ~IsDigit(b[k - 1]) /\ b[k - 1] # b_dot /\ b[k - 1] # b_plus
       /\ ~IsExpMark(b[k - 1])
       /\ b[k - 1] = b_minus => (k = 2 \/ ~IsExpMark(b[k - 2]))

LeadingZero(b) ==
    \E k \in 1..(Len(b) - 1) :
        /\ Outside(b, k)
        /\ b[k] = b_0 /\ IsDigit(b[k + 1])
        /\ StartsInteger(b, k)

C8_LeadingZerosFail ==
    (pc = "done" /\ LeadingZero(bytes)) => result = None

\* The scanner stopped after the '0' of an object's value, the lexer made
\* a second number token of the digit after it, and parse refused that
\* token in state ObjectValue.
C8_Witness ==
    /\ FailedAtToken
    /\ LeadingZero(bytes)
    /\ result = None
    /\ ti > 1
    /\ tokens[ti].kind = "Number" /\ tokens[ti - 1].kind = "Number"
    /\ tokens[ti - 1].n = F64Zero
    /\ Top(stack).st = "ObjectValue"

(***************************************************************************)
(* C9: whitespace between tokens is insignificant.  For every buffer and   *)
(* every position at which tokenize's loop stands (before the first token, *)
(* between two tokens, after the last token) and that lies outside every   *)
(* string literal, a run of space, tab, CR and LF bytes inserted there     *)
(* leaves the result of Json::parse unchanged.                             *)
(***************************************************************************)
RECURSIVE LoopPositions(_, _)
LoopPositions(b, k) ==
    IF k >= Len(b) THEN {k}
    ELSE IF LexStep(b, k).out \in {"skip", "token"}
         THEN {k} \cup LoopPositions(b, k + LexStep(b, k).len)
         ELSE {k}

WhitespaceRuns == SeqsUpTo(WhitespaceAlphabet, 2) \ {<<>>}

WithRun(b, k, run) == SubSeq(b, 1, k) \o run \o SubSeq(b, k + 1, Len(b))

C9_WhitespaceInsignificant ==
    pc = "done" =>
        \A k \in LoopPositions(bytes, 0) : \A run \in WhitespaceRuns :
            ModeAfter(bytes, k) = "out" =>
                JsonParse(WithRun(bytes, k, run)) = result

(***************************************************************************)
(* C11: an unescaped control byte (0..31) anywhere between the opening     *)
(* quote and the closing quote of a string literal makes the string scan   *)
(* fail, whatever precedes it in the literal: tokenize returns None at the *)
(* literal and Json::parse returns None.                                   *)
(***************************************************************************)
RawControlAt(b, k) == b[k] <= 31 /\ ModeAfter(b, k - 1) # "out"

HasRawControl(b) == \E k \in 1..Len(b) : RawControlAt(b, k)

C11_ControlByteFails ==
    HasRawControl(bytes) =>
        /\ pc \in {"tokenize", "done"}
        /\ pc = "done" => (result = None /\ i < Len(bytes))

\* The scan failed at a control byte that came after a partial \u escape.
C11_Witness ==
    /\ pc = "done" /\ result = None /\ i = 0
    /\ \E k \in 5..Len(bytes) :
          /\ RawControlAt(bytes, k)
          /\ bytes[k - 1] \in HexDigits /\ bytes[k - 2] = b_lower_u
          /\ bytes[k - 3] = b_backslash /\ bytes[k - 4] = b_quote

(***************************************************************************)
(* C12: inside a string literal a backslash followed by one of the bytes   *)
(* " \ b f n r t appends exactly the documented byte (34, 92, 8, 12, 10,   *)
(* 13, 9) and consumes two input bytes, and a backslash followed by any    *)
(* other byte except 'u', or by the end of the buffer, makes the scan      *)
(* fail.  The literals looked at hold one backslash, at p, between runs of *)
(* the plain byte 'a'.                                                     *)
(***************************************************************************)
DocumentedEscape ==
    (34 :> 34) @@ (92 :> 92) @@ (98 :> 8) @@ (102 :> 12) @@ (110 :> 10)
    @@ (114 :> 13) @@ (116 :> 9)

PlainBetween(b, lo, hi) == \A k \in lo..hi : b[k] = b_lower_a

EscapeAt(b, p) ==
    /\ Len(b) >= 4 /\ p \in 2..(Len(b) - 2)
    /\ b[1] = b_quote /\ b[Len(b)] = b_quote /\ b[p] = b_backslash
    /\ PlainBetween(b, 2, p - 1) /\ PlainBetween(b, p + 2, Len(b) - 1)

BackslashAtEnd(b) ==
    /\ Len(b) >= 2 /\ b[1] = b_quote /\ b[Len(b)] = b_backslash
    /\ PlainBetween(b, 2, Len(b) - 1)

Decoded(b, p) ==
    [k \in 1..(Len(b) - 3) |->
        IF k = p - 1 THEN DocumentedEscape[b[p + 1]] ELSE b_lower_a]

ScanFailed == pc \in {"tokenize", "done"} /\ (pc = "done" => (result = None /\ i = 0))

C12_SimpleEscapes ==
    /\ \A p \in 1..Len(bytes) :
          EscapeAt(bytes, p) =>
              IF bytes[p + 1] \in DOMAIN DocumentedEscape
              THEN /\ pc \in {"tokenize", "parse", "done"}
                   /\ pc # "tokenize" =>
                         /\ i = Len(bytes)
                         /\ input # <<>> => input = <<TokString(Decoded(bytes, p))>>
                   /\ pc = "done" => result = Some(JsonString(Decoded(bytes, p)))
              ELSE bytes[p + 1] # b_lower_u => ScanFailed
    /\ BackslashAtEnd(bytes) => ScanFailed

\* The two bytes of \b, between plain bytes, were decoded to the one byte 8.
C12_Witness ==
    /\ pc = "done"
    /\ EscapeAt(bytes, 3) /\ Len(bytes) = 6 /\ bytes[4] = b_lower_b
    /\ result = Some(JsonString(<<b_lower_a, 8, b_lower_a>>))

(***************************************************************************)
(* C13: for every choice of four hex digits XXXX, upper or lower case, the *)
(* escape \uXXXX is accepted and appends the UTF-8 encoding of the code    *)
(* point 0xXXXX, and the final UTF-8 check never rejects it; a byte that   *)
(* is no hex digit in one of the four slots, or the end of the buffer      *)
(* before four digits, fails.                                              *)
(***************************************************************************)
DigitValue(byte) ==
    IF byte <= 57 THEN byte - 48
    ELSE IF byte <= 70 THEN byte - 55
    ELSE byte - 87

UnicodeEscapeOnly(b) ==
    /\ Len(b) = 8
    /\ b[1] = b_quote /\ b[2] = b_backslash /\ b[3] = b_lower_u /\ b[8] = b_quote
    /\ \A k \in 4..7 : b[k] \in HexDigits

CodePoint(b) ==
    4096 * DigitValue(b[4]) + 256 * DigitValue(b[5])
    + 16 * DigitValue(b[6]) + DigitValue(b[7])

\* UTF-8 of a code point below 65536.
Utf8(c) ==
    CASE c <= 127 -> <<c>>
      [] c >= 128 /\ c <= 2047 -> <<192 + (c \div 64), 128 + (c % 64)>>
      [] OTHER -> <<224 + (c \div 4096), 128 + ((c \div 64) % 64), 128 + (c % 64)>>

SlotMissing(b) ==
    /\ Len(b) >= 3
    /\ b[1] = b_quote /\ b[2] = b_backslash /\ b[3] = b_lower_u
    /\ \E k \in 4..7 : k > Len(b) \/ b[k] \notin HexDigits

C13_UnicodeEscapes ==
    /\ UnicodeEscapeOnly(bytes) =>
          /\ pc \in {"tokenize", "parse", "done"}
          /\ pc = "done" => result = Some(JsonString(Utf8(CodePoint(bytes))))
    /\ SlotMissing(bytes) => ScanFailed

(***************************************************************************)
(* The call stack.  Json::parse calls tokenize and parse, and these call   *)
(* the peek functions, get_vec, get_map and the methods of Vec and         *)
(* BTreeMap, none of which calls itself.  Json has no Drop of its own, so  *)
(* a tree is dropped by the drop glue of the enum, which drops the         *)
(* elements of an Array or Object by calling itself on each: the call      *)
(* depth of dropping a value is the depth of its nesting.  The tree is     *)
(* dropped inside parse where parse returns None (root_value goes out of   *)
(* scope), and by the holder of the Some otherwise.                        *)
(***************************************************************************)
MaxOf(S) == IF S = {} THEN 0 ELSE CHOOSE x \in S : \A y \in S : y <= x

RECURSIVE DropDepth(_)
DropDepth(v) ==
    CASE v.kind = "Array" ->
            1 + MaxOf({DropDepth(v.elems[k]) : k \in 1..Len(v.elems)})
      [] v.kind = "Object" ->
            1 + MaxOf({DropDepth(v.map[k]) : k \in DOMAIN v.map})
      [] OTHER -> 1

\* The frames of Json::parse and of the function it called.
LoopDepth == Len(<<"Json::parse", "parse">>)

\* The deepest the call stack has been, counted from the caller's frame,
\* once the tree is gone.
CallDepth ==
    IF pc = "done" /\ result = None
    THEN LoopDepth + DropDepth(root_value)
    ELSE IF pc = "done" THEN MaxOf({LoopDepth + 1, DropDepth(root_value)})
    ELSE LoopDepth + 1

(***************************************************************************)
(* C14: one call of Json::parse, the returning or discarding of the tree   *)
(* it built included, uses call-stack depth bounded by a constant that     *)
(* does not depend on the nesting depth of the input.  Any such constant   *)
(* is at least what a document one container deep needs, and a bound that  *)
(* does not depend on the nesting is not exceeded by deeper documents.     *)
(***************************************************************************)
FlatCallDepth == LoopDepth + DropDepth(JsonArray(<<JsonNull>>))

C14_BoundedCallDepth == CallDepth <= FlatCallDepth

\* The frame holds a pointer to a container.
HasPtr(frame) == frame.st \in (ArrayStates \cup ObjectStates)

\* The tokens the loop of parse has accepted so far.
Accepted == SubSeq(input, 1, ti - 1)

InLoop == pc = "parse" /\ pc' = "parse" /\ ti' = ti + 1

(***************************************************************************)
(* C15: frame references stay valid.  In every reachable state of parse    *)
(* each frame on the stack references a container at the address it        *)
(* currently occupies (no dangling pointer is ever dereferenced), and a    *)
(* container referenced by a frame below the top of the stack receives no  *)
(* element: pushes and inserts go to the container of the top frame only.  *)
(***************************************************************************)
FramesValid ==
    /\ pc # "ub"
    /\ \A k \in 1..Len(stack) :
          HasPtr(stack[k]) => PtrValid(root_value, stack[k].ptr)

GrowthAtTopOnly ==
    \A k \in 1..(Len(stack) - 1) :
        HasPtr(stack[k]) =>
            /\ PathExists(root_value', stack[k].ptr.path)
            /\ Size(ValueAt(root_value', stack[k].ptr.path))
                 = Size(ValueAt(root_value, stack[k].ptr.path))

C15_FrameReferencesValid == []FramesValid /\ [][GrowthAtTopOnly]_vars

\* A container that is the second or later element of its parent is open,
\* three frames deep, and has itself received an element.
C15_Witness ==
    /\ pc = "parse"
    /\ Len(stack) >= 3
    /\ HasPtr(Top(stack))
    /\ Top(stack).ptr.stamp >= 2
    /\ Size(ValueAt(root_value, Top(stack).ptr.path)) >= 1
    /\ FramesValid

(***************************************************************************)
(* C16: exactly one frame is pushed per opening '[' or '{' and exactly one *)
(* is popped per accepted ']' or '}', and nothing else changes the length  *)
(* of the stack: after any accepted token prefix the stack length is 1     *)
(* plus the number of containers opened and not yet closed, the frame of   *)
(* each open container references that container (the top frame the        *)
(* innermost), and the stack is never empty.  The open containers and      *)
(* their places in the tree are read off the accepted tokens alone.        *)
(***************************************************************************)
IsOpener(token) == token.kind \in {"ArrayBegin", "ObjectBegin"}
IsCloser(token) == token.kind \in {"ArrayEnd", "ObjectEnd"}

OpenEntry(path, obj) == [path |-> path, obj |-> obj, n |-> 0, key |-> <<>>]

\* The path of the next element of the innermost open container.
NextSlot(open) ==
    IF open = <<>> THEN <<>>
    ELSE Append(Top(open).path,
                IF Top(open).obj THEN SelKey(Top(open).key)
                ELSE SelIndex(Top(open).n))

\* One more element in the innermost open container.
Counted(open) ==
    IF open = <<>> THEN open
    ELSE SetTop(open, [Top(open) EXCEPT !.n = @ + 1])

RECURSIVE OpenContainers(_, _, _)
OpenContainers(t, p, open) ==
    IF p > Len(t) THEN open
    ELSE CASE IsOpener(t[p]) ->
                OpenContainers(t, p + 1,
                    Append(Counted(open),
                           OpenEntry(NextSlot(open), t[p].kind = "ObjectBegin")))
           [] IsCloser(t[p]) -> OpenContainers(t, p + 1, Pop(open))
           [] t[p].kind = "String" /\ open # <<>> /\ Top(open).obj
                 /\ t[p - 1].kind # "Colon" ->
                OpenContainers(t, p + 1,
                    SetTop(open, [Top(open) EXCEPT !.key = t[p].s]))
           [] t[p].kind \in {"Colon", "Comma"} -> OpenContainers(t, p + 1, open)
           [] OTHER -> OpenContainers(t, p + 1, Counted(open))

StackMatchesOpen ==
    LET open == OpenContainers(Accepted, 1, <<>>)
    IN  /\ Len(stack) >= 1
        /\ Len(stack) = 1 + Len(open)
        /\ ~HasPtr(stack[1])
        /\ \A k \in 1..Len(open) :
              /\ HasPtr(stack[k + 1])
              /\ stack[k + 1].ptr.path = open[k].path
              /\ (stack[k + 1].st \in ObjectStates) = open[k].obj

OnePushOnePop ==
    InLoop =>
        Len(stack') - Len(stack)
          = (IF IsOpener(tokens[ti]) THEN 1
             ELSE IF IsCloser(tokens[ti]) THEN 0 - 1 ELSE 0)

C16_StackTracksOpen ==
    []((pc \in {"parse", "done"}) => StackMatchesOpen) /\ [][OnePushOnePop]_vars

\* Containers were opened and closed, and the innermost of three open ones
\* is the value of a key of an object that is the second element of the
\* root array.
C16_Witness ==
    /\ pc = "parse"
    /\ Len(stack) = 4
    /\ \E k \in 1..Len(Accepted) : IsCloser(Accepted[k])
    /\ Len(Top(stack).ptr.path) = 2
    /\ Top(stack).ptr.path[1].idx >= 1
    /\ Top(stack).ptr.path[2].key # <<>>
    /\ StackMatchesOpen

(***************************************************************************)
(* C17 as the specification has it: every element held by an Array or      *)
(* Object of the tree under construction is complete when it is attached,  *)
(* so no container that is still open (referenced by a frame) is an        *)
(* element of another container.                                           *)
(***************************************************************************)
C17_AttachedComplete ==
    \A k \in 1..Len(stack) : HasPtr(stack[k]) => stack[k].ptr.path = <<>>

(***************************************************************************)
(* C17, amended: a container is attached to its parent empty, when its     *)
(* opening token is read, and filled in place while its frame is on the    *)
(* stack; every other element (a scalar, a string, a closed container) is  *)
(* complete: no accepted token changes it.  The elements that are not      *)
(* complete are exactly the open containers the frames reference, and      *)
(* when parse returns Some there is none.                                  *)
(***************************************************************************)
RECURSIVE ElementPaths(_)
ElementPaths(v) ==
    IF v.kind = "Array"
    THEN UNION {{<<SelIndex(k - 1)>>}
                \cup {<<SelIndex(k - 1)>> \o q : q \in ElementPaths(v.elems[k])} :
                k \in 1..Len(v.elems)}
    ELSE IF v.kind = "Object"
    THEN UNION {{<<SelKey(k)>>}
                \cup {<<SelKey(k)>> \o q : q \in ElementPaths(v.map[k])} :
                k \in DOMAIN v.map}
    ELSE {}

IsPrefix(q, path) == Len(q) <= Len(path) /\ SubSeq(path, 1, Len(q)) = q

\* The element at path q is an open container, or holds one.
OnOpenPath(q) ==
    \E k \in 1..Len(stack) : HasPtr(stack[k]) /\ IsPrefix(q, stack[k].ptr.path)

ClosedElementsFixed ==
    InLoop =>
        \A q \in ElementPaths(root_value) :
            ~OnOpenPath(q) =>
                /\ PathExists(root_value', q)
                /\ ValueAt(root_value', q) = ValueAt(root_value, q)

AttachedEmpty ==
    (InLoop /\ IsOpener(tokens[ti])) =>
        /\ HasPtr(Top(stack'))
        /\ Size(ValueAt(root_value', Top(stack').ptr.path)) = 0

C17_ClosedElementsComplete ==
    /\ [][ClosedElementsFixed /\ AttachedEmpty]_vars
    /\ []((pc = "done" /\ result # None) => \A k \in 1..Len(stack) : ~HasPtr(stack[k]))

\* An array was attached empty to the root array, filled afterwards and
\* closed, and the root array went on to take another element.
C17_Witness ==
    /\ pc = "parse"
    /\ Len(stack) = 2
    /\ root_value.kind = "Array"
    /\ Len(root_value.elems) >= 2
    /\ root_value.elems[1].kind = "Array"
    /\ Len(root_value.elems[1].elems) >= 1

(***************************************************************************)
(* C18: the shape of the stack.  In every reachable state of parse the     *)
(* bottom frame is Start or RootValue and no other frame is; the bottom    *)
(* frame is Start only before the first token is consumed; and every frame *)
(* below the top is in state RootValue, ArrayValue or ObjectValue.         *)
(***************************************************************************)
C18_StackShape ==
    /\ Len(stack) >= 1
    /\ stack[1].st \in {"Start", "RootValue"}
    /\ \A k \in 2..Len(stack) : stack[k].st \notin {"Start", "RootValue"}
    /\ (stack[1].st = "Start") <=> (ti = 1)
    /\ \A k \in 1..(Len(stack) - 1) :
          stack[k].st \in {"RootValue", "ArrayValue", "ObjectValue"}

\* A child was popped and exposed a frame that waits for ',' or a closer,
\* itself above an ObjectValue frame.
C18_Witness ==
    /\ pc = "parse"
    /\ Len(stack) = 3
    /\ stack[2].st = "ObjectValue"
    /\ Top(stack).st = "ArrayValue"
    /\ ti > 1 /\ IsCloser(input[ti - 1])

(***************************************************************************)
(* C19: lexer progress.  Every iteration of tokenize's loop either returns *)
(* None or advances the read index by at least 1 and never past the end of *)
(* the buffer, pushing at most one token behind those already there; every *)
(* peek function returns a length between 0 (no match) and the number of   *)
(* remaining bytes; so tokenize terminates on every buffer and, where it   *)
(* returns Some, has consumed exactly the whole buffer.  Termination is    *)
(* stated by its variant: while the loop runs it can take a step, and      *)
(* every step that stays in the loop makes Len(bytes) - i, which is never  *)
(* negative, smaller.                                                      *)
(***************************************************************************)
IterationProgress ==
    (pc = "tokenize" /\ i < Len(bytes)) =>
        \/ pc' = "done" /\ result' = None /\ i' = i
        \/ /\ pc' = "tokenize"
           /\ i' >= i + 1 /\ i' <= Len(bytes)
           /\ \/ tokens' = tokens
              \/ Len(tokens') = Len(tokens) + 1
                 /\ SubSeq(tokens', 1, Len(tokens)) = tokens

PeekLengthsInRange ==
    (pc = "tokenize" /\ i < Len(bytes)) =>
        LET rb == Remaining(bytes, i)
        IN  /\ \A keyword \in {kw_true, kw_false, kw_null} :
                  peek_keyword(rb, keyword) \in {0, Len(keyword)}
                  /\ peek_keyword(rb, keyword) <= Len(rb)
            /\ peek_number(rb).len \in 0..Len(rb)
            /\ peek_string(rb).len \in 0..Len(rb)

\* While the loop runs, either the loop condition ends it or the match on
\* the byte at i has an outcome.
LoopCanStep ==
    pc = "tokenize" => (i >= Len(bytes) \/ Outcomes(LexStep(bytes, i)) # {})

VariantDecreases ==
    (pc = "tokenize" /\ pc' = "tokenize") => Len(bytes) - i' < Len(bytes) - i

C19_LexerProgress ==
    /\ [][IterationProgress /\ VariantDecreases]_vars
    /\ [](i <= Len(bytes) /\ PeekLengthsInRange /\ LoopCanStep)
    /\ [](pc = "parse" => i = Len(bytes))

\* tokenize consumed a buffer of several tokens of more than one byte, with
\* whitespace between them, to its end.
C19_Witness ==
    /\ pc = "parse"
    /\ i = Len(bytes)
    /\ Len(tokens) >= 3
    /\ Len(bytes) >= Len(tokens) + 4
    /\ \E k \in 1..Len(bytes) : IsWhitespace(bytes[k])

====
